---- MODULE Spec2Model ----
(***************************************************************************)
(* Resource Management API (backend_code.py): the Account and Demand       *)
(* tables, the service layer that reads and writes them, and the route     *)
(* handlers that validate a request, call the service and map its outcome  *)
(* to an HTTP status.                                                      *)
(*                                                                         *)
(* Conventions.                                                            *)
(*  - A Python str is a tuple of one-character strings; "" is << >>.       *)
(*  - An Optional value (a nullable column, an Optional pydantic field) is *)
(*    None = << >> or Some(v) = << v >>.                                   *)
(*  - A reading of datetime.now() is a number of seconds; clock is the     *)
(*    latest reading any handler has taken.  A handler takes its readings  *)
(*    as inputs that are not before clock, so time passes between and      *)
(*    within requests, and several requests may fall in one second.        *)
(*  - A generated id "ACC-<ts>", "DEM-<ts>", "DEM-CLONE-<ts>-<i>" is the   *)
(*    tuple of its prefix and the numbers formatted into it.               *)
(*  - issued is the set of ids of the accounts created so far; inflight    *)
(*    holds the requests that are being served step by step, where the     *)
(*    handlers of concurrent requests interleave.                          *)
(***************************************************************************)
EXTENDS Integers, Sequences, FiniteSets, TLC

VARIABLES accounts, demands, clock, last, issued, inflight

vars == <<accounts, demands, clock, last, issued, inflight>>

-----------------------------------------------------------------------------
(* Bounds of the model *)

MaxClock == 1

MaxCount == 2

MaxDemands == 2

MaxSno == 5

-----------------------------------------------------------------------------
(* Values *)

None == << >>

Some(v) == << v >>

Truthy(o) == o # None /\ o[1] # << >>

SetMax(S) == CHOOSE m \in S : \A x \in S : x <= m

Range(s) == { s[i] : i \in 1..Len(s) }

Override(f, g) == [ k \in DOMAIN f |-> IF k \in DOMAIN g THEN g[k] ELSE f[k] ]

\* now.date(): a day of the model is two seconds long.
Today(t) == t \div 2

CurrentUser == << "s", "y", "s" >>

ProbabilityEnum == { 50, 75, 90, 100 }

CloneCountMin == 1

CloneCountMax == 10

-----------------------------------------------------------------------------
(* datetime.strptime(s, "%Y-%m-%d").date() *)

Digits == << "0", "1", "2", "3", "4", "5", "6", "7", "8", "9" >>

IsDigit(c) == \E i \in 1..10 : Digits[i] = c

DigitVal(c) == (CHOOSE i \in 1..10 : Digits[i] = c) - 1

RECURSIVE Number(_)
Number(s) == IF s = << >> THEN 0
             ELSE 10 * Number(SubSeq(s, 1, Len(s) - 1)) + DigitVal(s[Len(s)])

AllDigits(s) == \A i \in 1..Len(s) : IsDigit(s[i])

IsLeap(y) == (y % 4 = 0 /\ y % 100 # 0) \/ y % 400 = 0

DaysInMonth(y, m) == IF m = 2 THEN (IF IsLeap(y) THEN 29 ELSE 28)
                     ELSE IF m \in { 4, 6, 9, 11 } THEN 30 ELSE 31

\* %d also accepts a space followed by one digit.
IsDayText(s) == AllDigits(s) \/ (Len(s) = 2 /\ s[1] = " " /\ IsDigit(s[2]))

DayNumber(s) == IF s[1] = " " THEN DigitVal(s[2]) ELSE Number(s)

\* %Y takes exactly four digits, %m and %d one or two; the separators are
\* literal and nothing may follow the day.
DateSplits(s) ==
    { p \in (1..Len(s)) \X (1..Len(s)) :
        /\ p[1] = 5 /\ s[5] = "-"
        /\ p[2] \in { 7, 8 } /\ p[2] < Len(s) /\ s[p[2]] = "-"
        /\ Len(s) - p[2] \in { 1, 2 }
        /\ AllDigits(SubSeq(s, 1, 4))
        /\ AllDigits(SubSeq(s, 6, p[2] - 1))
        /\ IsDayText(SubSeq(s, p[2] + 1, Len(s))) }

DateOf(s, p) == [ year  |-> Number(SubSeq(s, 1, 4)),
                  month |-> Number(SubSeq(s, 6, p[2] - 1)),
                  day   |-> DayNumber(SubSeq(s, p[2] + 1, Len(s))) ]

ValidDate(d) == /\ d.year >= 1
                /\ d.month \in 1..12
                /\ d.day \in 1..DaysInMonth(d.year, d.month)

\* None when strptime raises ValueError, Some(date) otherwise.
Strptime(s) ==
    LET ok == { p \in DateSplits(s) : ValidDate(DateOf(s, p)) }
    IN  IF ok = { } THEN None ELSE Some(DateOf(s, CHOOSE p \in ok : TRUE))

-----------------------------------------------------------------------------
(* Schema layer *)

AccountDateFields == { "revised_start_date", "planned_start_date", "planned_end_date" }

AccountRequired == { "client", "project", "vertical", "geo", "start_month",
                     "probability", "opportunity_status", "sow_status",
                     "project_status", "client_partner", "proposal_anchor",
                     "delivery_partner" }

AccountInputFields == AccountRequired \cup AccountDateFields \cup { "comment" }

AuditFields == { "last_updated_by", "updated_on", "added_by", "added_on" }

AccountColumns == { "id" } \cup AccountInputFields \cup AuditFields

DemandDateFields == { "original_start_date", "allocation_end_date" }

DemandRequired == { "account_id", "project", "role", "role_code", "location",
                    "allocation_percentage", "probability", "status", "start_month" }

DemandInputFields == DemandRequired \cup DemandDateFields
                       \cup { "revised", "resource_mapped", "comment" }

DemandColumns == { "sno", "id" } \cup DemandInputFields \cup AuditFields

\* AccountCreate: every required field carries a value and probability is a
\* member of ProbabilityEnum (the enum type and validate_probability agree).
ValidAccountCreate(body) ==
    /\ DOMAIN body = AccountInputFields
    /\ \A f \in AccountRequired : body[f] # None
    /\ body["probability"][1] \in ProbabilityEnum

\* Mutant: validate_probability is not run when the body carries null.
ValidAccountUpdateNullSkipped(body) ==
    /\ DOMAIN body \subseteq AccountInputFields
    /\ "probability" \in DOMAIN body /\ body["probability"] # None =>
          body["probability"][1] \in ProbabilityEnum

\* AccountUpdate: every field is Optional; a field left out of the body is
\* unset. A probability the body carries goes through the inherited
\* validate_probability, which rejects null (None is not in the allowed
\* list) as well as a number outside ProbabilityEnum.
ValidAccountUpdate(body) ==
    /\ DOMAIN body \subseteq AccountInputFields
    /\ "probability" \in DOMAIN body =>
          /\ body["probability"] # None
          /\ body["probability"][1] \in ProbabilityEnum

ValidDemandCreate(body) ==
    /\ DOMAIN body = DemandInputFields
    /\ \A f \in DemandRequired : body[f] # None

ValidDemandUpdate(body) == DOMAIN body \subseteq DemandInputFields

-----------------------------------------------------------------------------
(* Outcomes of a service call *)

Ok(v) == [ tag |-> "ok", value |-> v ]

Raise(e) == [ tag |-> "raise", exc |-> e ]

Returned(ret, accs, dems) == [ ret |-> ret, accounts |-> accs, demands |-> dems ]

\* A date field of the input that strptime rejects.
DateError(data, fields) ==
    \E f \in fields \cap DOMAIN data : Truthy(data[f]) /\ Strptime(data[f][1]) = None

\* create_*: a truthy date string is parsed, anything else becomes None.
CreateDate(o) == IF Truthy(o) THEN Strptime(o[1]) ELSE None

\* update_*: a truthy date string of update_data is replaced by its date,
\* None and "" stay as they are.
ConvertDates(data, fields) ==
    [ k \in DOMAIN data |->
        IF k \in fields /\ Truthy(data[k]) THEN Strptime(data[k][1]) ELSE data[k] ]

\* The Date column type binds None and date objects only: a str left in a
\* date attribute makes the flush raise StatementError.
DateBindError(data, fields) ==
    \E f \in fields \cap DOMAIN data : data[f] = Some(<< >>)

AccountById(accs, id) == { a \in accs : a.id = id }

DemandById(dems, id) == { d \in dems : d.id = id }

LinkedDemands(dems, account_id) == { d \in dems : d.account_id = Some(account_id) }

-----------------------------------------------------------------------------
(* AccountService *)

AccountRow(new_id, data, user_id, now) ==
    [ k \in AccountColumns |->
        IF k = "id" THEN new_id
        ELSE IF k \in { "last_updated_by", "added_by" } THEN Some(user_id)
        ELSE IF k \in { "updated_on", "added_on" } THEN Some(now)
        ELSE IF k \in AccountDateFields THEN CreateDate(data[k])
        ELSE data[k] ]

\* db.add + db.commit: the primary key accounts.id rejects a second row
\* with the same id.
InsertAccount(accs, row) ==
    IF AccountById(accs, row.id) # { } THEN Raise("IntegrityError")
    ELSE Ok(accs \cup { row })

\* t1 is the clock read for the id, t2 the clock read for the audit date.
create_account(accs, dems, account_data, user_id, t1, t2) ==
    LET new_id == << "ACC", t1 >>
        now    == Today(t2)
    IN  IF DateError(account_data, AccountDateFields)
        THEN Returned(Raise("ValueError"), accs, dems)
        ELSE LET account == AccountRow(new_id, account_data, user_id, now)
                 ins     == InsertAccount(accs, account)
             IN  IF ins.tag = "raise" THEN Returned(ins, accs, dems)
                 ELSE Returned(Ok(account), ins.value, dems)

\* Mutant: the update stamps no actor.
AuditUpdateNoActor(user_id, t) ==
    [ k \in { "last_updated_by", "updated_on" } |->
        IF k = "last_updated_by" THEN Some(<< >>) ELSE Some(Today(t)) ]

\* Mutant: the update stamps added_on as well.
AuditUpdateRestamps(user_id, t) ==
    [ k \in { "last_updated_by", "updated_on", "added_on" } |->
        IF k = "last_updated_by" THEN Some(user_id) ELSE Some(Today(t)) ]

AuditUpdate(user_id, t) ==
    [ k \in { "last_updated_by", "updated_on" } |->
        IF k = "last_updated_by" THEN Some(user_id) ELSE Some(Today(t)) ]

\* Mutant: the fields the body leaves out are written as None.
update_account_unset_written(accs, dems, account_id, account_data, user_id, t) ==
    LET found == AccountById(accs, account_id)
    IN  IF found = { } THEN Returned(Ok(None), accs, dems)
        ELSE LET account == CHOOSE a \in found : TRUE
                 full    == [ k \in AccountInputFields |->
                                IF k \in DOMAIN account_data THEN account_data[k] ELSE None ]
                 updated == Override(Override(account, full), AuditUpdate(user_id, t))
             IN  Returned(Ok(Some(updated)), (accs \ { account }) \cup { updated }, dems)

update_account(accs, dems, account_id, account_data, user_id, t) ==
    LET found == AccountById(accs, account_id)
    IN  IF found = { } THEN Returned(Ok(None), accs, dems)
        ELSE IF DateError(account_data, AccountDateFields)
        THEN Returned(Raise("ValueError"), accs, dems)
        ELSE IF DateBindError(account_data, AccountDateFields)
        THEN Returned(Raise("StatementError"), accs, dems)
        ELSE LET account     == CHOOSE a \in found : TRUE
                 update_data == ConvertDates(account_data, AccountDateFields)
                 updated     == Override(Override(account, update_data),
                                         AuditUpdate(user_id, t))
             IN  Returned(Ok(Some(updated)), (accs \ { account }) \cup { updated }, dems)

\* Mutant: the account goes and its demands go with it.
delete_account_cascade(accs, dems, account_id) ==
    LET found == AccountById(accs, account_id)
    IN  IF found = { } THEN Returned(Ok(FALSE), accs, dems)
        ELSE Returned(Ok(TRUE), accs \ found, dems \ LinkedDemands(dems, account_id))

delete_account(accs, dems, account_id) ==
    LET found == AccountById(accs, account_id)
    IN  IF found = { } THEN Returned(Ok(FALSE), accs, dems)
        ELSE IF Cardinality(LinkedDemands(dems, account_id)) > 0
        THEN Returned(Ok(FALSE), accs, dems)
        ELSE Returned(Ok(TRUE), accs \ found, dems)

-----------------------------------------------------------------------------
(* DemandService *)

\* sno is an INTEGER PRIMARY KEY without the AUTOINCREMENT keyword: SQLite
\* gives a new row the largest sno in the table plus one.
NextSno(dems) == IF dems = { } THEN 1 ELSE SetMax({ d.sno : d \in dems }) + 1

WithSno(row, n) == [ k \in DemandColumns |-> IF k = "sno" THEN n ELSE row[k] ]

\* INSERT of one pending row: the unique index on demands.id rejects a
\* second row with the same id.
InsertDemand(dems, row) ==
    IF DemandById(dems, row.id) # { } THEN Raise("IntegrityError")
    ELSE Ok(WithSno(row, NextSno(dems)))

\* The flush sends the pending rows in the order they were added and stops
\* at the first one the table rejects.
RECURSIVE Flush(_, _, _)
Flush(dems, rows, done) ==
    IF rows = << >> THEN [ failed |-> FALSE, demands |-> dems, rows |-> done ]
    ELSE LET ins == InsertDemand(dems, Head(rows))
         IN  IF ins.tag = "raise"
             THEN [ failed |-> TRUE, demands |-> dems, rows |-> done ]
             ELSE Flush(dems \cup { ins.value }, Tail(rows), Append(done, ins.value))

\* Mutant: the rows written before the failing one stay.
CommitNoRollback(dems, rows) ==
    LET f == Flush(dems, rows, << >>)
    IN  IF f.failed THEN [ ret |-> Raise("IntegrityError"), demands |-> f.demands ]
        ELSE [ ret |-> Ok(f.rows), demands |-> f.demands ]

\* db.commit() after one or more db.add(): one transaction, rolled back as
\* a whole when the flush fails.
Commit(dems, rows) ==
    LET f == Flush(dems, rows, << >>)
    IN  IF f.failed THEN [ ret |-> Raise("IntegrityError"), demands |-> dems ]
        ELSE [ ret |-> Ok(f.rows), demands |-> f.demands ]

DemandRow(new_id, data, user_id, now) ==
    [ k \in DemandColumns \ { "sno" } |->
        IF k = "id" THEN new_id
        ELSE IF k \in { "last_updated_by", "added_by" } THEN Some(user_id)
        ELSE IF k \in { "updated_on", "added_on" } THEN Some(now)
        ELSE IF k \in DemandDateFields THEN CreateDate(data[k])
        ELSE data[k] ]

\* Mutant: the referenced account is not looked up.
create_demand_unchecked(accs, dems, demand_data, user_id, t1, t2) ==
    LET c == Commit(dems, << DemandRow(<< "DEM", t1 >>, demand_data, user_id, Today(t2)) >>)
    IN  IF c.ret.tag = "raise" THEN Returned(c.ret, accs, c.demands)
        ELSE Returned(Ok(c.ret.value[1]), accs, c.demands)

create_demand(accs, dems, demand_data, user_id, t1, t2) ==
    IF demand_data["account_id"] = None
       \/ AccountById(accs, demand_data["account_id"][1]) = { }
    THEN Returned(Raise("HTTP404"), accs, dems)
    ELSE LET new_id == << "DEM", t1 >>
             now    == Today(t2)
         IN  IF DateError(demand_data, DemandDateFields)
             THEN Returned(Raise("ValueError"), accs, dems)
             ELSE LET c == Commit(dems, << DemandRow(new_id, demand_data, user_id, now) >>)
                  IN  IF c.ret.tag = "raise" THEN Returned(c.ret, accs, c.demands)
                      ELSE Returned(Ok(c.ret.value[1]), accs, c.demands)

\* Mutant: a new account_id is stored without looking the account up.
update_demand_unchecked(accs, dems, demand_id, demand_data, user_id, t) ==
    LET found == DemandById(dems, demand_id)
    IN  IF found = { } THEN Returned(Ok(None), accs, dems)
        ELSE LET demand  == CHOOSE d \in found : TRUE
                 updated == Override(Override(demand, demand_data), AuditUpdate(user_id, t))
             IN  Returned(Ok(Some(updated)), accs, (dems \ { demand }) \cup { updated })

\* Mutant: the row is written before the account is looked up.
update_demand_latecheck(accs, dems, demand_id, demand_data, user_id, t) ==
    LET found == DemandById(dems, demand_id)
    IN  IF found = { } THEN Returned(Ok(None), accs, dems)
        ELSE LET demand  == CHOOSE d \in found : TRUE
                 updated == Override(Override(demand, demand_data), AuditUpdate(user_id, t))
                 written == (dems \ { demand }) \cup { updated }
             IN  IF /\ "account_id" \in DOMAIN demand_data
                    /\ \/ demand_data["account_id"] = None
                       \/ AccountById(accs, demand_data["account_id"][1]) = { }
                 THEN Returned(Raise("HTTP404"), accs, written)
                 ELSE Returned(Ok(Some(updated)), accs, written)

\* Mutant: an empty body leaves the audit fields as they were.
update_demand_audit_on_change(accs, dems, demand_id, demand_data, user_id, t) ==
    LET found == DemandById(dems, demand_id)
    IN  IF found = { } THEN Returned(Ok(None), accs, dems)
        ELSE IF /\ "account_id" \in DOMAIN demand_data
                /\ \/ demand_data["account_id"] = None
                   \/ AccountById(accs, demand_data["account_id"][1]) = { }
        THEN Returned(Raise("HTTP404"), accs, dems)
        ELSE LET demand  == CHOOSE d \in found : TRUE
                 updated == IF DOMAIN demand_data = { } THEN demand
                            ELSE Override(Override(demand, demand_data),
                                          AuditUpdate(user_id, t))
             IN  Returned(Ok(Some(updated)), accs, (dems \ { demand }) \cup { updated })

update_demand(accs, dems, demand_id, demand_data, user_id, t) ==
    LET found == DemandById(dems, demand_id)
    IN  IF found = { } THEN Returned(Ok(None), accs, dems)
        ELSE IF /\ "account_id" \in DOMAIN demand_data
                /\ \/ demand_data["account_id"] = None
                   \/ AccountById(accs, demand_data["account_id"][1]) = { }
        THEN Returned(Raise("HTTP404"), accs, dems)
        ELSE IF DateError(demand_data, DemandDateFields)
        THEN Returned(Raise("ValueError"), accs, dems)
        ELSE IF DateBindError(demand_data, DemandDateFields)
        THEN Returned(Raise("StatementError"), accs, dems)
        ELSE LET demand      == CHOOSE d \in found : TRUE
                 update_data == ConvertDates(demand_data, DemandDateFields)
                 updated     == Override(Override(demand, update_data),
                                         AuditUpdate(user_id, t))
             IN  Returned(Ok(Some(updated)), accs, (dems \ { demand }) \cup { updated })

\* Mutant: the demands of the same account go with the demand.
delete_demand_of_account(accs, dems, demand_id) ==
    LET found == DemandById(dems, demand_id)
    IN  IF found = { } THEN Returned(Ok(FALSE), accs, dems)
        ELSE Returned(Ok(TRUE), accs,
                      { d \in dems : \A f \in found : d.account_id # f.account_id })

delete_demand(accs, dems, demand_id) ==
    LET found == DemandById(dems, demand_id)
    IN  IF found = { } THEN Returned(Ok(FALSE), accs, dems)
        ELSE Returned(Ok(TRUE), accs, dems \ found)

CloneRow(source_demand, new_id, user_id, now) ==
    [ k \in DemandColumns \ { "sno" } |->
        IF k = "id" THEN new_id
        ELSE IF k \in { "last_updated_by", "added_by" } THEN Some(user_id)
        ELSE IF k \in { "updated_on", "added_on" } THEN Some(now)
        ELSE source_demand[k] ]

\* t0 is the clock read before the loop, ts[i + 1] the clock read of
\* iteration i. range(count) is empty for count <= 0.
clone_demand(accs, dems, demand_id, count, user_id, t0, ts) ==
    LET found == DemandById(dems, demand_id)
    IN  IF found = { } THEN Returned(Raise("HTTP404"), accs, dems)
        ELSE LET source_demand == CHOOSE d \in found : TRUE
                 now    == Today(t0)
                 n      == IF count > 0 THEN count ELSE 0
                 clones == [ j \in 1..n |->
                               CloneRow(source_demand, << "DEM-CLONE", ts[j], j - 1 >>,
                                        user_id, now) ]
                 c      == Commit(dems, clones)
             IN  Returned(c.ret, accs, c.demands)

-----------------------------------------------------------------------------
(* API layer: one action per route handler.  last is the request just      *)
(* served and its response: the route, the id in the path, the body, the   *)
(* HTTP status and the rows returned.                                      *)

NoId == << "-" >>

NoBody == << >>

\* The query string of the clone endpoint.
CountQuery(count) == [ x \in { "count" } |-> count ]

Served(op, id, body, status, data) ==
    [ op |-> op, id |-> id, body |-> body, status |-> status, data |-> data ]

\* Two readings of the clock by one handler: the second may fall in the
\* next second.
Readings(t1, t2) == clock <= t1 /\ t1 <= t2 /\ t2 <= t1 + 1

CreateAccountRoute(account, t1, t2) ==
    IF ~ValidAccountCreate(account)
    THEN /\ last' = Served("create_account", NoId, account, 422, << >>)
         /\ UNCHANGED << accounts, demands, clock, issued, inflight >>
    ELSE /\ Readings(t1, t2)
         /\ LET r == create_account(accounts, demands, account, CurrentUser, t1, t2)
            IN  /\ accounts' = r.accounts
                /\ demands' = r.demands
                /\ clock' = t2
                /\ issued' = IF r.ret.tag = "ok" THEN issued \cup { r.ret.value.id }
                              ELSE issued
                /\ UNCHANGED inflight
                /\ last' = IF r.ret.tag = "ok"
                           THEN Served("create_account", NoId, account, 200, << r.ret.value >>)
                           ELSE Served("create_account", NoId, account, 400, << >>)

\* No try/except in this handler: an exception of the service is a 500.
UpdateAccountRoute(account_id, account, t) ==
    IF ~ValidAccountUpdate(account)
    THEN /\ last' = Served("update_account", account_id, account, 422, << >>)
         /\ UNCHANGED << accounts, demands, clock, issued, inflight >>
    ELSE /\ clock <= t
         /\ LET r == update_account(accounts, demands, account_id, account, CurrentUser, t)
            IN  /\ accounts' = r.accounts
                /\ demands' = r.demands
                /\ clock' = IF r.ret.tag = "ok" /\ r.ret.value # None THEN t ELSE clock
                /\ UNCHANGED << issued, inflight >>
                /\ last' = IF r.ret.tag = "raise"
                           THEN Served("update_account", account_id, account, 500, << >>)
                           ELSE IF r.ret.value = None
                           THEN Served("update_account", account_id, account, 404, << >>)
                           ELSE Served("update_account", account_id, account, 200, r.ret.value)

DeleteAccountRoute(account_id) ==
    LET r == delete_account(accounts, demands, account_id)
    IN  /\ accounts' = r.accounts
        /\ demands' = r.demands
        /\ UNCHANGED << clock, issued, inflight >>
        /\ last' = Served("delete_account", account_id, NoBody,
                           IF r.ret.value THEN 200 ELSE 400, << >>)

CreateDemandRoute(demand, t1, t2) ==
    IF ~ValidDemandCreate(demand)
    THEN /\ last' = Served("create_demand", NoId, demand, 422, << >>)
         /\ UNCHANGED << accounts, demands, clock, issued, inflight >>
    ELSE /\ Readings(t1, t2)
         /\ LET r == create_demand(accounts, demands, demand, CurrentUser, t1, t2)
            IN  /\ accounts' = r.accounts
                /\ demands' = r.demands
                /\ clock' = IF r.ret.tag = "raise" /\ r.ret.exc = "HTTP404" THEN clock ELSE t2
                /\ UNCHANGED << issued, inflight >>
                /\ last' = IF r.ret.tag = "ok"
                           THEN Served("create_demand", NoId, demand, 200, << r.ret.value >>)
                           ELSE IF r.ret.exc = "HTTP404"
                           THEN Served("create_demand", NoId, demand, 404, << >>)
                           ELSE Served("create_demand", NoId, demand, 400, << >>)

UpdateDemandRoute(demand_id, demand, t) ==
    IF ~ValidDemandUpdate(demand)
    THEN /\ last' = Served("update_demand", demand_id, demand, 422, << >>)
         /\ UNCHANGED << accounts, demands, clock, issued, inflight >>
    ELSE /\ clock <= t
         /\ LET r == update_demand(accounts, demands, demand_id, demand, CurrentUser, t)
            IN  /\ accounts' = r.accounts
                /\ demands' = r.demands
                /\ clock' = IF r.ret.tag = "ok" /\ r.ret.value # None THEN t ELSE clock
                /\ UNCHANGED << issued, inflight >>
                /\ last' = IF r.ret.tag = "raise"
                           THEN Served("update_demand", demand_id, demand,
                                         IF r.ret.exc = "HTTP404" THEN 404 ELSE 400, << >>)
                           ELSE IF r.ret.value = None
                           THEN Served("update_demand", demand_id, demand, 404, << >>)
                           ELSE Served("update_demand", demand_id, demand, 200, r.ret.value)

DeleteDemandRoute(demand_id) ==
    LET r == delete_demand(accounts, demands, demand_id)
    IN  /\ accounts' = r.accounts
        /\ demands' = r.demands
        /\ UNCHANGED << clock, issued, inflight >>
        /\ last' = Served("delete_demand", demand_id, NoBody,
                           IF r.ret.value THEN 200 ELSE 404, << >>)

\* The clock readings of the loop: the first k iterations read t, the
\* others read the next second.
LoopReadings(count, t, k) == [ j \in 1..count |-> IF j <= k THEN t ELSE t + 1 ]

\* Mutant: the count has no upper bound.
ValidCloneCountNoUpper(count) == count >= CloneCountMin

\* Query(1, ge=1, le=10)
ValidCloneCount(count) == count >= CloneCountMin /\ count <= CloneCountMax

CloneDemandRoute(demand_id, count, t, k) ==
    IF ~ValidCloneCount(count)
    THEN /\ last' = Served("clone_demand", demand_id, CountQuery(count), 422, << >>)
         /\ UNCHANGED << accounts, demands, clock, issued, inflight >>
    ELSE /\ clock <= t
         /\ k \in 0..count
         /\ LET ts == LoopReadings(count, t, k)
                r  == clone_demand(accounts, demands, demand_id, count, CurrentUser, t, ts)
            IN  /\ accounts' = r.accounts
                /\ demands' = r.demands
                /\ clock' = IF r.ret.tag = "raise" /\ r.ret.exc = "HTTP404"
                            THEN clock ELSE ts[count]
                /\ UNCHANGED << issued, inflight >>
                /\ last' = IF r.ret.tag = "ok"
                           THEN Served("clone_demand", demand_id, CountQuery(count), 200, r.ret.value)
                           ELSE Served("clone_demand", demand_id, CountQuery(count),
                                         IF r.ret.exc = "HTTP404" THEN 404 ELSE 400, << >>)

-----------------------------------------------------------------------------
(* Requests *)

Field(k, v) == [ x \in { k } |-> v ]

NoSuchId == << "NOPE", 0 >>

Str(c) == Some(<< c >>)

BaseAccountBody ==
    [ k \in AccountInputFields |->
        IF k = "probability" THEN Some(50)
        ELSE IF k \in AccountDateFields \cup { "comment" } THEN None
        ELSE IF k = "opportunity_status" THEN Str("o")
        ELSE Str("a") ]

BaseDemandBody ==
    [ k \in DemandInputFields |->
        IF k \in { "allocation_percentage", "probability" } THEN Some(100)
        ELSE IF k = "account_id" THEN Some(NoSuchId)
        ELSE IF k \in DemandDateFields \cup { "revised", "resource_mapped", "comment" }
        THEN None
        ELSE IF k = "status" THEN Str("o")
        ELSE Str("a") ]

Times == 0..MaxClock

AccountIds == { << "ACC", t >> : t \in Times }

StoredDemandIds == { d.id : d \in demands } \cup { NoSuchId }

CloneCounts == CloneCountMin..MaxCount

\* A request in flight: its route, path id and body, the statement its
\* handler is about to run and the row the handler has loaded.
Request(op, id, body, pc, snap) ==
    [ op |-> op, id |-> id, body |-> body, pc |-> pc, snap |-> snap ]

Idle == Request("idle", NoId, NoBody, "done", None)

\* The two handlers that may run at once: one serving an account deletion,
\* one serving a demand write.
Workers == { "deleter", "writer" }

Init ==
    /\ accounts = { }
    /\ demands = { }
    /\ clock = 0
    /\ last = Served("start", NoId, NoBody, 200, << >>)
    /\ issued = { }
    /\ inflight = [ w \in Workers |-> Idle ]

DemandAccountUpdates ==
    { Field("account_id", Some(a)) : a \in AccountIds }
      \cup { Field("account_id", None) }

Next ==
    \/ \E t1, t2 \in Times : CreateAccountRoute(BaseAccountBody, t1, t2)
    \/ \E id \in AccountIds, t \in Times :
         UpdateAccountRoute(id, Field("comment", Str("x")), t)
    \/ \E id \in AccountIds : DeleteAccountRoute(id)
    \/ \E a \in AccountIds, t1, t2 \in Times :
         /\ Cardinality(demands) < MaxDemands
         /\ NextSno(demands) <= MaxSno
         /\ CreateDemandRoute([ BaseDemandBody EXCEPT !["account_id"] = Some(a) ], t1, t2)
    \/ \E id \in StoredDemandIds, u \in DemandAccountUpdates, t \in Times :
         UpdateDemandRoute(id, u, t)
    \/ \E id \in StoredDemandIds : DeleteDemandRoute(id)
    \/ \E id \in StoredDemandIds, n \in CloneCounts, t \in Times, k \in 0..MaxCount :
         /\ Cardinality(demands) < MaxDemands
         /\ NextSno(demands) + n - 1 <= MaxSno
         /\ k < n => t < MaxClock
         /\ CloneDemandRoute(id, n, t, k)

Spec == Init /\ [][Next]_vars

-----------------------------------------------------------------------------
(* Referential integrity *)

\* The body names no account of the table.
NamesNoAccount(body) ==
    \/ body["account_id"] = None
    \/ AccountById(accounts, body["account_id"][1]) = { }

\* C1: after any sequence of account and demand operations served one at a
\* time, the account_id of every stored demand is the id of a stored account.
DemandsReferToAccounts ==
    \A d \in demands :
        d.account_id # None /\ AccountById(accounts, d.account_id[1]) # { }

\* An account has just been deleted while demands of other accounts stay.
DemandsReferToAccountsWitness ==
    /\ last.op = "delete_account"
    /\ last.status = 200
    /\ demands # { }

\* C2: deleting an existing account that no demand references succeeds and
\* the account is gone afterwards; deleting one that a demand references
\* fails, cascades nothing and leaves accounts and demands as they were.
DeleteAccountRefusedNotCascaded ==
    [][ last'.op = "delete_account" /\ AccountById(accounts, last'.id) # { } =>
          IF LinkedDemands(demands, last'.id) = { }
          THEN /\ last'.status = 200
               /\ AccountById(accounts', last'.id) = { }
               /\ accounts' = accounts \ AccountById(accounts, last'.id)
               /\ demands' = demands
          ELSE /\ last'.status # 200
               /\ accounts' = accounts
               /\ demands' = demands ]_vars

\* A deletion was refused for an account that demands reference.
DeleteAccountRefusedWitness ==
    /\ last.op = "delete_account"
    /\ last.status = 400
    /\ AccountById(accounts, last.id) # { }
    /\ LinkedDemands(demands, last.id) # { }

\* C3: create_demand with an account_id that matches no stored account
\* fails with NotFound (404) and leaves accounts and demands as they were.
CreateDemandUnknownAccount ==
    [][ /\ last'.op = "create_demand"
        /\ ValidDemandCreate(last'.body)
        /\ NamesNoAccount(last'.body)
        => /\ last'.status = 404
           /\ accounts' = accounts
           /\ demands' = demands ]_vars

\* A create_demand naming an account that was never created or was deleted
\* has been answered 404 while other demands are stored.
CreateDemandUnknownAccountWitness ==
    /\ last.op = "create_demand"
    /\ last.status = 404
    /\ demands # { }

\* C4: update_demand on a stored demand whose body sets account_id to a
\* value that matches no stored account fails with NotFound (404) and leaves
\* the demand, and the rest of the store, as it was.
UpdateDemandUnknownAccount ==
    [][ /\ last'.op = "update_demand"
        /\ DemandById(demands, last'.id) # { }
        /\ "account_id" \in DOMAIN last'.body
        /\ NamesNoAccount(last'.body)
        => /\ last'.status = 404
           /\ DemandById(demands', last'.id) = DemandById(demands, last'.id)
           /\ demands' = demands
           /\ accounts' = accounts ]_vars

\* An update of a stored demand has been answered 404 for its account_id.
UpdateDemandUnknownAccountWitness ==
    /\ last.op = "update_demand"
    /\ last.status = 404
    /\ DemandById(demands, last.id) # { }
    /\ "account_id" \in DOMAIN last.body

-----------------------------------------------------------------------------
(* Clone *)

DemandBusinessFields == DemandInputFields

\* The request just served (in the primed state) is a clone of a stored
\* demand with a count the endpoint accepts.
CloneServed ==
    /\ last'.op = "clone_demand"
    /\ last'.body["count"] \in CloneCountMin..CloneCountMax
    /\ DemandById(demands, last'.id) # { }

\* C5: clone_demand of a stored demand with n in 1..10 adds exactly n new
\* demands and returns them in creation order; every clone has an id that
\* no other clone and no demand stored before has, the business fields of
\* the source and audit fields set to the actor and the current date; the
\* source is untouched.
CloneAddsCountCopies ==
    [][ CloneServed =>
          LET source == CHOOSE d \in DemandById(demands, last'.id) : TRUE
              n      == last'.body["count"]
              out    == last'.data
              new    == demands' \ demands
          IN  /\ last'.status = 200
              /\ demands \subseteq demands'
              /\ Cardinality(new) = n
              /\ Len(out) = n
              /\ Range(out) = new
              /\ \A i, j \in 1..Len(out) :
                    i < j => out[i].id # out[j].id /\ out[i].sno < out[j].sno
              /\ \A c \in new :
                    /\ DemandById(demands, c.id) = { }
                    /\ \A f \in DemandBusinessFields : c[f] = source[f]
                    /\ c.last_updated_by = Some(CurrentUser)
                    /\ c.added_by = Some(CurrentUser)
                    /\ c.updated_on = c.added_on
                    /\ \E t \in clock..clock' : c.added_on = Some(Today(t)) ]_vars

\* C6: a clone batch is all or nothing: after the request either every
\* clone of the batch is stored or the table is as it was, also when the
\* batch fails part-way or the source is absent.
CloneBatchAllOrNothing ==
    [][ last'.op = "clone_demand" =>
          /\ accounts' = accounts
          /\ \/ demands' = demands
             \/ /\ last'.status = 200
                /\ demands \subseteq demands'
                /\ Cardinality(demands' \ demands) = last'.body["count"]
                /\ Range(last'.data) = demands' \ demands ]_vars

\* A batch of two has failed in a second for which the id of its first
\* clone was free and the id of its second clone was taken.
CloneBatchFailedPartWay ==
    /\ last.op = "clone_demand"
    /\ last.status = 400
    /\ last.body["count"] = 2
    /\ DemandById(demands, << "DEM-CLONE", clock, 0 >>) = { }
    /\ DemandById(demands, << "DEM-CLONE", clock, 1 >>) # { }

-----------------------------------------------------------------------------
(* Account fields: the account routes with bodies that differ in            *)
(* probability and comment, over seconds that fall on two days.            *)

LateTimes == 1..(MaxClock + 1)

LateAccountIds == { << "ACC", t >> : t \in LateTimes }

AccountBodies ==
    { BaseAccountBody, [ BaseAccountBody EXCEPT !["probability"] = Some(60) ] }

AccountUpdates ==
    { Field("comment", Str("x")),
      Field("probability", Some(75)),
      Field("probability", Some(60)),
      Field("probability", None),
      [ k \in { "comment", "probability" } |->
          IF k = "comment" THEN None ELSE Some(75) ],
      NoBody }

NextAccount ==
    \/ \E b \in AccountBodies, t1, t2 \in LateTimes : CreateAccountRoute(b, t1, t2)
    \/ \E id \in LateAccountIds, b \in AccountUpdates, t \in LateTimes :
         UpdateAccountRoute(id, b, t)
    \/ \E id \in LateAccountIds : DeleteAccountRoute(id)
    \/ \E a \in LateAccountIds, t \in LateTimes :
         /\ demands = { }
         /\ CreateDemandRoute([ BaseDemandBody EXCEPT !["account_id"] = Some(a) ], t, t)

SpecAccount == Init /\ [][NextAccount]_vars

\* The account a request addresses, before and after it.
Addressed(accs, id) == CHOOSE a \in AccountById(accs, id) : TRUE

\* What update_account stores for a field the body carries.
Stored(body, f) ==
    IF f \in AccountDateFields /\ Truthy(body[f]) THEN Strptime(body[f][1]) ELSE body[f]

\* C7: update_account on a stored account changes exactly the fields its
\* body carries, plus last_updated_by and updated_on (the actor and the
\* current date); the account's other fields, the other accounts and the
\* demands keep their values.  An absent id is answered NotFound (404) with
\* the store unchanged.
UpdateAccountPartial ==
    [][ /\ last'.op = "update_account"
        /\ ValidAccountUpdate(last'.body)
        /\ ~DateError(last'.body, AccountDateFields)
        /\ ~DateBindError(last'.body, AccountDateFields)
        => IF AccountById(accounts, last'.id) = { }
           THEN /\ last'.status = 404
                /\ accounts' = accounts
                /\ demands' = demands
           ELSE LET old == Addressed(accounts, last'.id)
                    new == Addressed(accounts', last'.id)
                IN  /\ last'.status = 200
                    /\ last'.data = Some(new)
                    /\ Cardinality(AccountById(accounts', last'.id)) = 1
                    /\ \A f \in DOMAIN last'.body : new[f] = Stored(last'.body, f)
                    /\ new.last_updated_by = Some(CurrentUser)
                    /\ new.updated_on = Some(Today(clock'))
                    /\ \A f \in AccountColumns \ (DOMAIN last'.body
                                                   \cup { "last_updated_by", "updated_on" }) :
                          new[f] = old[f]
                    /\ accounts' \ { new } = accounts \ { old }
                    /\ demands' = demands ]_vars

\* An update carrying only comment has been served on a later day than the
\* account was added, with another account and a demand in the store.
UpdateAccountPartialWitness ==
    /\ last.op = "update_account"
    /\ last.status = 200
    /\ DOMAIN last.body = { "comment" }
    /\ last.data[1].updated_on # last.data[1].added_on
    /\ Cardinality(accounts) > 1
    /\ demands # { }

\* C8: every create_account with valid input returns a record whose id is
\* not empty and differs from the id of every account created before, with
\* added_on = updated_on = the current date and added_by = last_updated_by
\* = the actor, also for several creations within one second.
CreateAccountFreshId ==
    [][ /\ last'.op = "create_account"
        /\ ValidAccountCreate(last'.body)
        /\ ~DateError(last'.body, AccountDateFields)
        => /\ last'.status = 200
           /\ Len(last'.data) = 1
           /\ last'.data[1].id # << >>
           /\ last'.data[1].id \notin issued
           /\ last'.data[1].added_on = Some(Today(clock'))
           /\ last'.data[1].updated_on = Some(Today(clock'))
           /\ last'.data[1].added_by = Some(CurrentUser)
           /\ last'.data[1].last_updated_by = Some(CurrentUser) ]_vars

\* C9: the probability of every stored account is one of 50, 75, 90, 100;
\* no create_account or update_account leaves an account with another
\* probability or with none.
AccountProbabilityInEnum ==
    \A a \in accounts :
        a.probability # None /\ a.probability[1] \in ProbabilityEnum

\* An update whose body carries a null probability has been refused and
\* the account still has a probability.
AccountProbabilityWitness ==
    /\ last.op = "update_account"
    /\ last.status = 422
    /\ "probability" \in DOMAIN last.body
    /\ last.body["probability"] = None
    /\ AccountById(accounts, last.id) # { }

-----------------------------------------------------------------------------
(* DashboardService.search                                                  *)
(*                                                                          *)
(* Column.contains(query) is the SQL  column LIKE '%' || query || '%'  with *)
(* no ESCAPE clause.  SQLite's LIKE folds the ASCII letters, reads % in the *)
(* pattern as any run of characters and _ as any one character, and is not *)
(* true of a NULL column.                                                   *)

UpperCase ==
    << "A", "B", "C", "D", "E", "F", "G", "H", "I", "J", "K", "L", "M",
       "N", "O", "P", "Q", "R", "S", "T", "U", "V", "W", "X", "Y", "Z" >>

LowerCase ==
    << "a", "b", "c", "d", "e", "f", "g", "h", "i", "j", "k", "l", "m",
       "n", "o", "p", "q", "r", "s", "t", "u", "v", "w", "x", "y", "z" >>

Fold(c) ==
    IF \E i \in DOMAIN UpperCase : UpperCase[i] = c
    THEN LowerCase[CHOOSE i \in DOMAIN UpperCase : UpperCase[i] = c]
    ELSE c

RECURSIVE Like(_, _)
Like(text, pattern) ==
    IF pattern = << >> THEN text = << >>
    ELSE IF Head(pattern) = "%"
    THEN \/ Like(text, Tail(pattern))
         \/ text # << >> /\ Like(Tail(text), pattern)
    ELSE IF text = << >> THEN FALSE
    ELSE IF Head(pattern) = "_" THEN Like(Tail(text), Tail(pattern))
    ELSE Fold(Head(text)) = Fold(Head(pattern)) /\ Like(Tail(text), Tail(pattern))

Contains(column, query) ==
    column # None /\ Like(column[1], << "%" >> \o query \o << "%" >>)

AccountSearchFields == { "client", "project", "vertical", "opportunity_status" }

DemandSearchFields == { "role", "project", "location", "status" }

search(accs, dems, query, entity) ==
    IF entity = "accounts"
    THEN Ok({ a \in accs : \E f \in AccountSearchFields : Contains(a[f], query) })
    ELSE IF entity = "demands"
    THEN Ok({ d \in dems : \E f \in DemandSearchFields : Contains(d[f], query) })
    ELSE Raise("ValueError")

SearchQuery(query, entity) ==
    [ k \in { "query", "entity" } |-> IF k = "query" THEN query ELSE entity ]

SearchRoute(query, entity) ==
    /\ UNCHANGED << accounts, demands, clock, issued, inflight >>
    /\ IF entity \notin { "accounts", "demands" }
       THEN last' = Served("search", NoId, SearchQuery(query, entity), 422, << >>)
       ELSE LET r == search(accounts, demands, query, entity)
            IN  last' = IF r.tag = "ok"
                        THEN Served("search", NoId, SearchQuery(query, entity), 200,
                                    << r.value >>)
                        ELSE Served("search", NoId, SearchQuery(query, entity), 400, << >>)

MaxQueryLen == 2

SearchTexts == { << "A", "b" >>, << "a", "%" >>, << "b" >> }

QueryChars == { "a", "A", "b", "%", "_" }

Queries == UNION { [ 1..n -> QueryChars ] : n \in 0..MaxQueryLen }

Entities == { "accounts", "demands", "users" }

NextSearch ==
    \/ \E c \in SearchTexts, t \in Times :
         CreateAccountRoute([ BaseAccountBody EXCEPT !["client"] = Some(c) ], t, t)
    \/ \E a \in AccountIds, c \in SearchTexts, t \in Times :
         /\ demands = { }
         /\ CreateDemandRoute([ BaseDemandBody EXCEPT !["account_id"] = Some(a),
                                                      !["role"] = Some(c) ], t, t)
    \/ \E q \in Queries, e \in Entities : SearchRoute(q, e)

SpecSearch == Init /\ [][NextSearch]_vars

\* query occurs in text as a run of the same characters.
Substring(text, query) ==
    \E i \in 0..(Len(text) - Len(query)) :
        \A j \in 1..Len(query) : text[i + j] = query[j]

Records(entity) == IF entity = "accounts" THEN accounts ELSE demands

SearchedFields(entity) ==
    IF entity = "accounts" THEN AccountSearchFields ELSE DemandSearchFields

\* C10: search(query, entity) returns exactly the stored records of the
\* entity in which query is a case-sensitive substring, every character
\* taken literally, of at least one of the four searched fields.
SearchIsLiteralSubstring ==
    /\ last.op = "search"
    /\ last.body["entity"] \in { "accounts", "demands" }
    => /\ last.status = 200
       /\ last.data[1] =
            { r \in Records(last.body["entity"]) :
                \E f \in SearchedFields(last.body["entity"]) :
                    r[f] # None /\ Substring(r[f][1], last.body["query"]) }

-----------------------------------------------------------------------------
(* DashboardService.get_dashboard_stats                                     *)

\* GROUP BY column with count(id): one entry for each distinct value of the
\* column, NULL included, loaded into a dict keyed by the value.
GroupCount(rows, column) ==
    [ v \in { r[column] : r \in rows } |->
        Cardinality({ r \in rows : r[column] = v }) ]

\* Dict[str, int] of DashboardStats: a key that is not a str is refused.
ValidStatusDict(d) == None \notin DOMAIN d

\* The validated dict, keyed by the strings.
StatusDict(d) == [ k \in { v[1] : v \in DOMAIN d } |-> d[Some(k)] ]

get_dashboard_stats(accs, dems) ==
    LET total_accounts     == Cardinality(accs)
        total_demands      == Cardinality(dems)
        accounts_by_status == GroupCount(accs, "opportunity_status")
        demands_by_status  == GroupCount(dems, "status")
    IN  IF ValidStatusDict(accounts_by_status) /\ ValidStatusDict(demands_by_status)
        THEN Ok([ totalAccounts    |-> total_accounts,
                  totalDemands     |-> total_demands,
                  accountsByStatus |-> StatusDict(accounts_by_status),
                  demandsByStatus  |-> StatusDict(demands_by_status) ])
        ELSE Raise("ValidationError")

StatsRoute ==
    /\ UNCHANGED << accounts, demands, clock, issued, inflight >>
    /\ LET r == get_dashboard_stats(accounts, demands)
       IN  last' = IF r.tag = "ok"
                   THEN Served("stats", NoId, NoBody, 200, << r.value >>)
                   ELSE Served("stats", NoId, NoBody, 500, << >>)

Statuses == { Str("o"), Str("c") }

StatusUpdates == Statuses \cup { None }

NextStats ==
    \/ \E v \in Statuses, t \in Times :
         CreateAccountRoute([ BaseAccountBody EXCEPT !["opportunity_status"] = v ], t, t)
    \/ \E id \in AccountIds, v \in StatusUpdates :
         UpdateAccountRoute(id, Field("opportunity_status", v), clock)
    \/ \E id \in AccountIds : DeleteAccountRoute(id)
    \/ \E a \in AccountIds, v \in Statuses, t \in Times :
         /\ Cardinality(demands) < MaxDemands
         /\ NextSno(demands) <= MaxSno
         /\ CreateDemandRoute([ BaseDemandBody EXCEPT !["account_id"] = Some(a),
                                                      !["status"] = v ], t, t)
    \/ \E id \in StoredDemandIds, v \in StatusUpdates :
         UpdateDemandRoute(id, Field("status", v), clock)
    \/ \E id \in StoredDemandIds : DeleteDemandRoute(id)
    \/ StatsRoute

SpecStats == Init /\ [][NextStats]_vars

\* The sum of the counts of a mapping.
RECURSIVE SumCounts(_, _)
SumCounts(d, keys) ==
    IF keys = { } THEN 0
    ELSE LET k == CHOOSE x \in keys : TRUE
         IN  d[k] + SumCounts(d, keys \ { k })

\* The mapping of the claim: the distinct stored values of the column, each
\* with the number of rows that hold it.
CountsOf(d, rows, column) ==
    /\ DOMAIN d = { r[column][1] : r \in { x \in rows : x[column] # None } }
    /\ { r \in rows : r[column] = None } = { }
    /\ \A k \in DOMAIN d : d[k] = Cardinality({ r \in rows : r[column] = Some(k) })
    /\ \A k \in DOMAIN d : d[k] > 0
    /\ SumCounts(d, DOMAIN d) = Cardinality(rows)

\* C11: stats() returns, in every reachable state, the numbers of stored
\* accounts and demands and two mappings whose keys are exactly the stored
\* opportunity_status (demand status) values, each with the count of its
\* records, no count zero, the counts summing to the totals; on the empty
\* store the totals are 0 and the mappings empty.
StatsCountStore ==
    last.op = "stats"
    => /\ last.status = 200
       /\ last.data[1].totalAccounts = Cardinality(accounts)
       /\ last.data[1].totalDemands = Cardinality(demands)
       /\ CountsOf(last.data[1].accountsByStatus, accounts, "opportunity_status")
       /\ CountsOf(last.data[1].demandsByStatus, demands, "status")
       /\ accounts = { } => last.data[1].accountsByStatus = << >>
       /\ demands = { } => last.data[1].demandsByStatus = << >>

-----------------------------------------------------------------------------
(* Date strings: create and update of accounts and demands with bodies     *)
(* that carry a date.                                                       *)

Text(s) == Some(s)

LeapDay == << "2", "0", "2", "4", "-", "0", "2", "-", "2", "9" >>

NoLeapDay == << "2", "0", "2", "3", "-", "0", "2", "-", "2", "9" >>

DateTexts == { None, Text(LeapDay), Text(NoLeapDay), Text(<< "x" >>), Text(<< >>) }

NextDates ==
    \/ \E d \in DateTexts, t \in Times :
         CreateAccountRoute([ BaseAccountBody EXCEPT !["revised_start_date"] = d ], t, t)
    \/ \E id \in AccountIds, d \in DateTexts :
         UpdateAccountRoute(id, Field("planned_end_date", d), clock)
    \/ \E a \in AccountIds, d \in DateTexts, t \in Times :
         /\ demands = { }
         /\ CreateDemandRoute([ BaseDemandBody EXCEPT !["account_id"] = Some(a),
                                                      !["original_start_date"] = d ], t, t)
    \/ \E id \in StoredDemandIds, d \in DateTexts :
         UpdateDemandRoute(id, Field("allocation_end_date", d), clock)

SpecDates == Init /\ [][NextDates]_vars

\* The request carries a date string that is not a date, addressed to a
\* stored record and naming a stored account where it names one.
MalformedDateRequest(req) ==
    \/ /\ req.op = "create_account"
       /\ ValidAccountCreate(req.body)
       /\ DateError(req.body, AccountDateFields)
    \/ /\ req.op = "update_account"
       /\ ValidAccountUpdate(req.body)
       /\ DateError(req.body, AccountDateFields)
       /\ AccountById(accounts, req.id) # { }
    \/ /\ req.op = "create_demand"
       /\ ValidDemandCreate(req.body)
       /\ DateError(req.body, DemandDateFields)
       /\ ~NamesNoAccount(req.body)
    \/ /\ req.op = "update_demand"
       /\ ValidDemandUpdate(req.body)
       /\ DateError(req.body, DemandDateFields)
       /\ DemandById(demands, req.id) # { }
       /\ "account_id" \in DOMAIN req.body => ~NamesNoAccount(req.body)

\* C12: a create or update of an account or a demand whose body carries a
\* malformed date string fails with HTTP 400 and leaves the store as it
\* was: no record is created and the addressed record keeps every field.
MalformedDateRefused ==
    [][ MalformedDateRequest(last')
        => /\ last'.status = 400
           /\ accounts' = accounts
           /\ demands' = demands ]_vars

-----------------------------------------------------------------------------
(* Error mapping                                                            *)

\* The request, valid at the boundary, addresses a record that is not
\* stored or names an account that is not stored.
AddressesNothing(req) ==
    \/ /\ req.op = "update_account"
       /\ ValidAccountUpdate(req.body)
       /\ AccountById(accounts, req.id) = { }
    \/ /\ req.op = "delete_account"
       /\ AccountById(accounts, req.id) = { }
    \/ /\ req.op = "create_demand"
       /\ ValidDemandCreate(req.body)
       /\ NamesNoAccount(req.body)
    \/ /\ req.op = "update_demand"
       /\ ValidDemandUpdate(req.body)
       /\ \/ DemandById(demands, req.id) = { }
          \/ "account_id" \in DOMAIN req.body /\ NamesNoAccount(req.body)
    \/ /\ req.op = "delete_demand"
       /\ DemandById(demands, req.id) = { }
    \/ /\ req.op = "clone_demand"
       /\ req.body["count"] \in CloneCountMin..CloneCountMax
       /\ DemandById(demands, req.id) = { }

\* The request deletes a stored account that demands still reference.
DeletesReferencedAccount(req) ==
    /\ req.op = "delete_account"
    /\ AccountById(accounts, req.id) # { }
    /\ LinkedDemands(demands, req.id) # { }

\* C13: every operation that fails because the addressed account or demand,
\* or a referenced account, is not stored answers 404; a deletion of an
\* account refused because demands reference it answers 400, so the two
\* failures differ on every endpoint, account deletion included.
NotFoundDistinctFromRefused ==
    [][ /\ AddressesNothing(last') => last'.status = 404
        /\ DeletesReferencedAccount(last') => last'.status = 400 ]_vars

-----------------------------------------------------------------------------
(* Clone counts at the boundary *)

CloneCountInputs ==
    { CloneCountMin - 2, CloneCountMin - 1, CloneCountMin, CloneCountMax, CloneCountMax + 1 }

NextClone ==
    \/ \E t \in Times : CreateAccountRoute(BaseAccountBody, t, t)
    \/ \E a \in AccountIds, t \in Times :
         /\ demands = { }
         /\ CreateDemandRoute([ BaseDemandBody EXCEPT !["account_id"] = Some(a) ], t, t)
    \/ \E id \in StoredDemandIds, n \in CloneCountInputs, t \in Times :
         /\ ValidCloneCount(n) => Cardinality(demands) <= 1
         /\ CloneDemandRoute(id, n, t, IF n > 0 THEN n ELSE 0)

SpecClone == Init /\ [][NextClone]_vars

\* C14: the clone endpoint refuses every count outside 1..10 before the
\* service runs, so that the store is unchanged; a count in 1..10 reaches
\* the service as it is: a batch that is cloned has that many demands.
CloneCountBounded ==
    [][ last'.op = "clone_demand" =>
          IF last'.body["count"] \in CloneCountMin..CloneCountMax
          THEN /\ last'.status # 422
               /\ last'.status = 200 =>
                    /\ Len(last'.data) = last'.body["count"]
                    /\ Cardinality(demands' \ demands) = last'.body["count"]
          ELSE /\ last'.status = 422
               /\ accounts' = accounts
               /\ demands' = demands ]_vars

\* A clone of a stored demand with count 11 has been refused, after a clone
\* of it with count 10 was served: the table holds the source and ten clones.
CloneCountBoundedWitness ==
    /\ last.op = "clone_demand"
    /\ last.body["count"] = CloneCountMax + 1
    /\ last.status = 422
    /\ DemandById(demands, last.id) # { }
    /\ Cardinality(demands) = CloneCountMax + 1

-----------------------------------------------------------------------------
(* Audit fields *)

AuditSet(r) ==
    /\ r.added_on # None
    /\ r.updated_on # None
    /\ r.added_by # None /\ r.added_by[1] # << >>
    /\ r.last_updated_by # None /\ r.last_updated_by[1] # << >>

\* C15: every stored account and demand has added_on and updated_on set and
\* a non-empty added_by and last_updated_by, whatever creates, updates and
\* clones were served.
AuditFieldsSet ==
    /\ \A a \in accounts : AuditSet(a)
    /\ \A d \in demands : AuditSet(d)

\* An update of a demand has been served while the tables hold a clone and
\* an account that was updated.
AuditFieldsSetWitness ==
    /\ last.op = "update_demand"
    /\ last.status = 200
    /\ \E d \in demands : d.id[1] = "DEM-CLONE"
    /\ accounts # { }
    /\ \E a \in accounts : a.comment # None

-----------------------------------------------------------------------------
(* Demand fields: the demand routes with update bodies that carry nothing, *)
(* one field or the account, and an account update, over seconds that fall *)
(* on two days.                                                            *)

DemandUpdates ==
    { NoBody,
      Field("comment", Str("x")),
      Field("status", Str("c")) }
    \cup { Field("account_id", Some(a)) : a \in LateAccountIds }

NextDemand ==
    \/ \E t \in LateTimes : CreateAccountRoute(BaseAccountBody, t, t)
    \/ \E a \in LateAccountIds, t \in LateTimes :
         /\ Cardinality(demands) < MaxDemands
         /\ NextSno(demands) <= MaxSno
         /\ CreateDemandRoute([ BaseDemandBody EXCEPT !["account_id"] = Some(a) ], t, t)
    \/ \E id \in StoredDemandIds, b \in DemandUpdates, t \in LateTimes :
         UpdateDemandRoute(id, b, t)
    \/ \E id \in StoredDemandIds : DeleteDemandRoute(id)
    \/ \E id \in LateAccountIds, t \in LateTimes :
         UpdateAccountRoute(id, Field("comment", Str("x")), t)

SpecDemand == Init /\ [][NextDemand]_vars

\* The demand a request addresses.
AddressedDemand(dems, id) == CHOOSE d \in DemandById(dems, id) : TRUE

\* What update_demand stores for a field the body carries.
DemandStored(body, f) ==
    IF f \in DemandDateFields /\ Truthy(body[f]) THEN Strptime(body[f][1]) ELSE body[f]

\* C16: update_demand on a stored demand writes the fields its body carries
\* and always sets last_updated_by and updated_on to the actor and the
\* current date, also for an empty body; the demand's other fields, the
\* other demands and the accounts keep their values.  An absent demand id
\* is answered NotFound (404) with the store unchanged.
UpdateDemandPartial ==
    [][ /\ last'.op = "update_demand"
        /\ ValidDemandUpdate(last'.body)
        /\ ~DateError(last'.body, DemandDateFields)
        /\ ~DateBindError(last'.body, DemandDateFields)
        => IF DemandById(demands, last'.id) = { }
           THEN /\ last'.status = 404
                /\ accounts' = accounts
                /\ demands' = demands
           ELSE IF "account_id" \in DOMAIN last'.body /\ NamesNoAccount(last'.body)
           THEN TRUE
           ELSE LET old == AddressedDemand(demands, last'.id)
                    new == AddressedDemand(demands', last'.id)
                IN  /\ last'.status = 200
                    /\ last'.data = Some(new)
                    /\ Cardinality(DemandById(demands', last'.id)) = 1
                    /\ \A f \in DOMAIN last'.body : new[f] = DemandStored(last'.body, f)
                    /\ new.last_updated_by = Some(CurrentUser)
                    /\ new.updated_on = Some(Today(clock'))
                    /\ \A f \in DemandColumns \ (DOMAIN last'.body
                                                  \cup { "last_updated_by", "updated_on" }) :
                          new[f] = old[f]
                    /\ demands' \ { new } = demands \ { old }
                    /\ accounts' = accounts ]_vars

\* An update with an empty body has been served on a later day than the
\* demand was added, with another demand in the table.
UpdateDemandPartialWitness ==
    /\ last.op = "update_demand"
    /\ last.status = 200
    /\ DOMAIN last.body = { }
    /\ last.data[1].updated_on # last.data[1].added_on
    /\ Cardinality(demands) > 1

-----------------------------------------------------------------------------
(* delete_demand *)

\* C17: delete_demand of a stored demand succeeds whatever its account is
\* and removes that demand only: the other demands and the accounts are
\* unchanged; an absent id is answered NotFound (404), the store unchanged.
DeleteDemandRemovesOne ==
    [][ last'.op = "delete_demand" =>
          /\ accounts' = accounts
          /\ IF DemandById(demands, last'.id) = { }
             THEN last'.status = 404 /\ demands' = demands
             ELSE /\ last'.status = 200
                  /\ Cardinality(DemandById(demands, last'.id)) = 1
                  /\ demands' = demands \ DemandById(demands, last'.id) ]_vars

\* A demand has been deleted while another demand of the same account and
\* the account stay stored.
DeleteDemandRemovesOneWitness ==
    /\ last.op = "delete_demand"
    /\ last.status = 200
    /\ DemandById(demands, last.id) = { }
    /\ \E d \in demands : AccountById(accounts, d.account_id[1]) # { }
    /\ Cardinality(demands) > 1
    /\ Cardinality({ d.account_id : d \in demands }) = 1

-----------------------------------------------------------------------------
(* Concurrent requests.  Each request has its own Session; a SELECT sees    *)
(* what is committed when it runs and holds no lock afterwards, and the    *)
(* tables have no enforced foreign key, so the statements of two handlers  *)
(* interleave between a read and the commit that follows it.               *)

Begin(w, req) ==
    /\ inflight[w] = Idle
    /\ inflight' = [ inflight EXCEPT ![w] = req ]
    /\ UNCHANGED << accounts, demands, clock, last, issued >>

\* The handler of w goes on to its next statement.
Goto(w, pc, snap) ==
    /\ inflight' = [ inflight EXCEPT ![w] = [ @ EXCEPT !.pc = pc, !.snap = snap ] ]
    /\ UNCHANGED last

\* The handler of w answers.
Respond(w, status, data) ==
    /\ last' = Served(inflight[w].op, inflight[w].id, inflight[w].body, status, data)
    /\ inflight' = [ inflight EXCEPT ![w] = Idle ]

\* delete_account: the account lookup.
DeleteAccountRead ==
    LET req == inflight["deleter"]
    IN  /\ req.op = "delete_account" /\ req.pc = "read_account"
        /\ UNCHANGED << accounts, demands, clock, issued >>
        /\ IF AccountById(accounts, req.id) = { }
           THEN Respond("deleter", 400, << >>)
           ELSE Goto("deleter", "count_demands",
                     Some(CHOOSE a \in AccountById(accounts, req.id) : TRUE))

\* delete_account: the count of the demands of the account.
DeleteAccountCount ==
    LET req == inflight["deleter"]
    IN  /\ req.op = "delete_account" /\ req.pc = "count_demands"
        /\ UNCHANGED << accounts, demands, clock, issued >>
        /\ IF LinkedDemands(demands, req.id) # { }
           THEN Respond("deleter", 400, << >>)
           ELSE Goto("deleter", "commit", req.snap)

\* delete_account: db.delete(account) and db.commit(); a DELETE that finds
\* no row is a StaleDataError, which the route does not catch.
DeleteAccountCommit ==
    LET req == inflight["deleter"]
    IN  /\ req.op = "delete_account" /\ req.pc = "commit"
        /\ accounts' = accounts \ AccountById(accounts, req.id)
        /\ UNCHANGED << demands, clock, issued >>
        /\ IF AccountById(accounts, req.id) = { }
           THEN Respond("deleter", 500, << >>)
           ELSE Respond("deleter", 200, << >>)

\* create_demand: the lookup of the referenced account.
CreateDemandRead ==
    LET req == inflight["writer"]
    IN  /\ req.op = "create_demand" /\ req.pc = "read_account"
        /\ UNCHANGED << accounts, demands, clock, issued >>
        /\ IF NamesNoAccount(req.body)
           THEN Respond("writer", 404, << >>)
           ELSE Goto("writer", "commit", None)

\* create_demand: the id, the dates, db.add(demand) and db.commit().
CreateDemandCommit(t1, t2) ==
    LET req == inflight["writer"]
    IN  /\ req.op = "create_demand" /\ req.pc = "commit"
        /\ Readings(t1, t2)
        /\ clock' = t2
        /\ UNCHANGED << accounts, issued >>
        /\ IF DateError(req.body, DemandDateFields)
           THEN demands' = demands /\ Respond("writer", 400, << >>)
           ELSE LET c == Commit(demands, << DemandRow(<< "DEM", t1 >>, req.body,
                                                     CurrentUser, Today(t2)) >>)
                IN  /\ demands' = c.demands
                    /\ IF c.ret.tag = "ok" THEN Respond("writer", 200, c.ret.value)
                       ELSE Respond("writer", 400, << >>)

\* update_demand and clone_demand: the lookup of the addressed demand.
DemandRead ==
    LET req == inflight["writer"]
    IN  /\ req.op \in { "update_demand", "clone_demand" } /\ req.pc = "read_demand"
        /\ UNCHANGED << accounts, demands, clock, issued >>
        /\ IF DemandById(demands, req.id) = { }
           THEN Respond("writer", 404, << >>)
           ELSE Goto("writer",
                     IF req.op = "update_demand" /\ "account_id" \in DOMAIN req.body
                     THEN "read_account" ELSE "commit",
                     Some(CHOOSE d \in DemandById(demands, req.id) : TRUE))

\* update_demand: the lookup of the new account.
UpdateDemandReadAccount ==
    LET req == inflight["writer"]
    IN  /\ req.op = "update_demand" /\ req.pc = "read_account"
        /\ UNCHANGED << accounts, demands, clock, issued >>
        /\ IF NamesNoAccount(req.body)
           THEN Respond("writer", 404, << >>)
           ELSE Goto("writer", "commit", req.snap)

\* update_demand: the dates, the setattr loop and db.commit().  The UPDATE
\* carries the attributes whose value differs from the loaded one and
\* addresses the row by its primary key; a missing row is a StaleDataError.
UpdateDemandCommit(t) ==
    LET req         == inflight["writer"]
        loaded      == req.snap[1]
        update_data == Override(ConvertDates(req.body, DemandDateFields),
                                AuditUpdate(CurrentUser, t))
        changed     == { k \in DOMAIN update_data : update_data[k] # loaded[k] }
        rows        == { d \in demands : d.sno = loaded.sno }
    IN  /\ req.op = "update_demand" /\ req.pc = "commit"
        /\ clock <= t
        /\ UNCHANGED << accounts, issued >>
        /\ IF \/ DateError(req.body, DemandDateFields)
              \/ DateBindError(req.body, DemandDateFields)
              \/ rows = { }
           THEN /\ demands' = demands
                /\ clock' = IF DateError(req.body, DemandDateFields) THEN clock ELSE t
                /\ Respond("writer", 400, << >>)
           ELSE LET row     == CHOOSE d \in rows : TRUE
                    updated == Override(row, [ k \in changed |-> update_data[k] ])
                IN  /\ demands' = (demands \ { row }) \cup { updated }
                    /\ clock' = t
                    /\ Respond("writer", 200, Some(updated))

\* clone_demand: the loop over range(count), db.add(clone) and db.commit().
CloneDemandCommit(t, k) ==
    LET req    == inflight["writer"]
        count  == req.body["count"]
        ts     == LoopReadings(count, t, k)
        clones == [ j \in 1..count |->
                      CloneRow(req.snap[1], << "DEM-CLONE", ts[j], j - 1 >>,
                               CurrentUser, Today(t)) ]
        c      == Commit(demands, clones)
    IN  /\ req.op = "clone_demand" /\ req.pc = "commit"
        /\ clock <= t
        /\ k \in 0..count
        /\ clock' = ts[count]
        /\ demands' = c.demands
        /\ UNCHANGED << accounts, issued >>
        /\ IF c.ret.tag = "ok" THEN Respond("writer", 200, c.ret.value)
           ELSE Respond("writer", 400, << >>)

NextRace ==
    \/ \E t \in Times : CreateAccountRoute(BaseAccountBody, t, t)
    \/ \E a \in AccountIds : Begin("deleter", Request("delete_account", a, NoBody,
                                                      "read_account", None))
    \/ DeleteAccountRead
    \/ DeleteAccountCount
    \/ DeleteAccountCommit
    \/ \E a \in AccountIds :
         /\ demands = { }
         /\ NextSno(demands) <= MaxSno
         /\ Begin("writer", Request("create_demand", NoId,
                                    [ BaseDemandBody EXCEPT !["account_id"] = Some(a) ],
                                    "read_account", None))
    \/ CreateDemandRead
    \/ CreateDemandCommit(clock, clock)
    \/ \E id \in StoredDemandIds, a \in AccountIds :
         Begin("writer", Request("update_demand", id, Field("account_id", Some(a)),
                                 "read_demand", None))
    \/ \E id \in StoredDemandIds :
         /\ Cardinality(demands) < MaxDemands
         /\ NextSno(demands) <= MaxSno
         /\ Begin("writer", Request("clone_demand", id, CountQuery(CloneCountMin),
                                    "read_demand", None))
    \/ DemandRead
    \/ UpdateDemandReadAccount
    \/ UpdateDemandCommit(clock)
    \/ CloneDemandCommit(clock, CloneCountMin)
    \/ \E id \in StoredDemandIds : DeleteDemandRoute(id)

SpecRace == Init /\ [][NextRace]_vars

\* C18: with the statements of concurrent requests interleaved, a
\* delete_account(A) that runs beside a create_demand, update_demand or
\* clone_demand for account A never leaves A deleted while a stored demand
\* has account_id = A.
NoDemandOfDeletedAccount ==
    \A a \in issued :
        AccountById(accounts, a) = { } => LinkedDemands(demands, a) = { }

-----------------------------------------------------------------------------
(* Creation stamps *)

\* The record r is stored in rows with its creation fields as they are.
KeepsCreation(r, rows, fields) ==
    \E n \in rows : \A f \in fields : n[f] = r[f]

\* C19: no update changes the id, added_by or added_on of a stored record
\* (nor the sno of a demand), and with a clock that does not go back every
\* stored account and demand has added_on <= updated_on.
CreationStampsKept ==
    [][ /\ last'.op \in { "update_account", "update_demand" } =>
            /\ \A a \in accounts :
                  KeepsCreation(a, accounts', { "id", "added_by", "added_on" })
            /\ \A d \in demands :
                  KeepsCreation(d, demands', { "id", "added_by", "added_on", "sno" })
        /\ \A r \in accounts' \cup demands' : r.added_on[1] <= r.updated_on[1] ]_vars

\* An account has been updated on a later day than it was added, while a
\* demand updated on a later day than it was added is stored.
CreationStampsKeptWitness ==
    /\ last.op = "update_account"
    /\ last.status = 200
    /\ last.data[1].added_on[1] < last.data[1].updated_on[1]
    /\ \E d \in demands : d.added_on[1] < d.updated_on[1]

====
